---- MODULE Spec2Model ----
(***************************************************************************)
(* A model of the ESC/P command parser of tools/escp_parser.py: the        *)
(* command table ESCP_COMMANDS, the tokenizer loop ESCPParser.parse_packet *)
(* (one action per path through one iteration of its while loop), the      *)
(* statistics it keeps (commands_found, unknown_commands) and the packet   *)
(* loop ESCPParser.parse_file.                                             *)
(*                                                                         *)
(* Bytes are integers 0..255, byte strings are sequences of bytes, and the *)
(* cursor i is 0-based as in the source; hex text is a sequence of         *)
(* one-character strings.                                                  *)
(***************************************************************************)
EXTENDS Integers, Sequences, FiniteSets, TLC

VARIABLES
    table,            \* the module-level dict ESCP_COMMANDS
    commands_found,   \* self.commands_found: defaultdict(int), key -> count
    unknown_commands, \* self.unknown_commands: set of byte strings
    parsed_data,      \* self.parsed_data: list of packet entries
    data,             \* parse_packet: the argument
    i,                \* parse_packet: the cursor
    parsed_commands,  \* parse_packet: the list it returns
    pc,               \* where control is
    steps,            \* iterations of the while loop run by this call
    spans,            \* the [from, to) byte ranges this call has consumed
    reads,            \* the indexes this call has subscripted data[...] at
    packets,          \* parse_file: data['packets'] of the file being read
    pk,               \* parse_file: index of the next packet (1-based)
    result,           \* parse_file: what the last call returned
    tokenized,        \* parse_file: the packet indexes handed to parse_packet
    calls,            \* the buffers parse_packet has returned for, in order
    returned,         \* the record lists of those returns, in the same order
    ops,              \* the methods called on the parser so far, in order
    reports,          \* the summaries produced by the statistics reads
    th,               \* concurrent callers: thread -> its parse_packet frame
    drv,              \* an EpsonDTGDriver (driver/epson_dtg.py)
    dic               \* a CommandDictionary (tools/command_dictionary.py)

vars == <<table, commands_found, unknown_commands, parsed_data, data, i,
          parsed_commands, pc, steps, spans, reads, packets, pk, result,
          tokenized, calls, returned, ops, reports, th, drv, dic>>

----------------------------------------------------------------------------
(* Bounds of the model *)

\* the longest buffer of the exhaustive part of the single-call input set
MaxLen == 4

----------------------------------------------------------------------------
(* Byte strings *)

ESC == 27

Min(a, b) == IF a < b THEN a ELSE b

\* data[k] with a 0-based index
At(d, k) == d[k + 1]

\* the Python slice d[a:b] for 0 <= a: it clamps at the end of d
Slice(d, a, b) == SubSeq(d, a + 1, Min(b, Len(d)))

Fill(b, n) == [k \in 1..n |-> b]

HexDigits == <<"0", "1", "2", "3", "4", "5", "6", "7",
               "8", "9", "a", "b", "c", "d", "e", "f">>

\* bytes.hex(): two lowercase digits per byte, high nibble first
Hex(bs) == [k \in 1..(2 * Len(bs)) |->
              IF k % 2 = 1 THEN HexDigits[(bs[(k + 1) \div 2] \div 16) + 1]
                           ELSE HexDigits[(bs[k \div 2] % 16) + 1]]

HexUpper == <<"0", "1", "2", "3", "4", "5", "6", "7",
              "8", "9", "A", "B", "C", "D", "E", "F">>

IsHexDigit(ch) ==
    \E k \in 1..16 : HexDigits[k] = ch \/ HexUpper[k] = ch

HexVal(ch) ==
    (CHOOSE k \in 1..16 : HexDigits[k] = ch \/ HexUpper[k] = ch) - 1

\* bytes.fromhex() of a text without whitespace: ValueError for an odd
\* number of digits or a character that is no hex digit
FromHex(text) ==
    IF Len(text) % 2 = 1 \/ \E k \in 1..Len(text) : ~IsHexDigit(text[k])
    THEN [error |-> "ValueError", bytes |-> <<>>]
    ELSE [error |-> "",
          bytes |-> [k \in 1..(Len(text) \div 2) |->
                       16 * HexVal(text[2 * k - 1]) + HexVal(text[2 * k])]]

----------------------------------------------------------------------------
(* The command table *)

\* ESCP_COMMANDS as <<key, description>> pairs; every key is unique
\* mutant: a table with an entry made twice and a key of 6 bytes
ESCP_COMMANDS_Malformed == {
    <<<<27, 64>>,      "Initialize printer">>,
    <<<<27, 64>>,      "Reset printer">>,
    <<<<27, 40, 71>>,  "Select graphics mode">>,
    <<<<27, 40, 71, 1, 0, 1>>, "Select graphics mode (raster)">> }

ESCP_COMMANDS == {
    <<<<27, 64>>,      "Initialize printer">>,
    <<<<27, 40, 71>>,  "Select graphics mode">>,
    <<<<27, 40, 85>>,  "Set unit">>,
    <<<<27, 40, 75>>,  "Set color selection">>,
    <<<<27, 40, 105>>, "Set ink density/type">>,
    <<<<27, 40, 99>>,  "Set page format">>,
    <<<<27, 40, 67>>,  "Set page length">>,
    <<<<27, 40, 86>>,  "Set absolute vertical position">>,
    <<<<27, 40, 118>>, "Set relative vertical position">>,
    <<<<27, 40, 72>>,  "Set horizontal spacing">>,
    <<<<27, 36>>,      "Set absolute horizontal position">>,
    <<<<27, 92>>,      "Set relative horizontal position">>,
    <<<<27, 40, 82>>,  "Select print color">>,
    <<<<27, 40, 114>>, "Select color tables">>,
    <<<<27, 46>>,      "Graphics dot control">>,
    <<<<27, 42>>,      "Select bit image mode">>,
    <<<<27, 75>>,      "Select single-density graphics">>,
    <<<<27, 76>>,      "Select double-density graphics">>,
    <<<<27, 89>>,      "Select high-speed double-density graphics">>,
    <<<<27, 90>>,      "Select quadruple-density graphics">> }

Keys(t) == {e[1] : e \in t}

\* cmd in ESCP_COMMANDS
InTable(t, cmd) == cmd \in Keys(t)

\* ESCP_COMMANDS[cmd]
Description(t, cmd) == (CHOOSE e \in t : e[1] = cmd)[2]

----------------------------------------------------------------------------
(* One iteration of the while loop of parse_packet *)

\* mutant: every byte is taken for the start of an escape sequence
IsEsc_AnyByte(d, c) == c < Len(d)

\* data[i:i+1] == ESC
IsEsc(d, c) == Slice(d, c, c + 1) = <<ESC>>

\* mutant: the length loop stops at 3
CmdLens_NoTwo == <<5, 4, 3>>

\* mutant: the lengths are tried shortest first
CmdLens_Ascending == <<2, 3, 4, 5>>

\* range(5, 1, -1)
CmdLens == <<5, 4, 3, 2>>

\* mutant: the slice is looked up without the test i + cmd_len <= len(data)
RECURSIVE TryLens_NoBound(_, _, _, _)
TryLens_NoBound(d, c, t, k) ==
    IF k > Len(CmdLens) THEN 0
    ELSE LET cmd_len == CmdLens[k] IN
         IF InTable(t, Slice(d, c, c + cmd_len))
         THEN cmd_len
         ELSE TryLens_NoBound(d, c, t, k + 1)

\* the for loop over cmd_len: the first length, in the order of CmdLens, that
\* fits in the buffer and whose slice is a key of the table; 0 when the loop
\* ends with matched still False
RECURSIVE TryLens(_, _, _, _)
TryLens(d, c, t, k) ==
    IF k > Len(CmdLens) THEN 0
    ELSE LET cmd_len == CmdLens[k] IN
         IF c + cmd_len <= Len(d) /\ InTable(t, Slice(d, c, c + cmd_len))
         THEN cmd_len
         ELSE TryLens(d, c, t, k + 1)

MatchLen(d, c, t) == TryLens(d, c, t, 1)

\* "Try 2-character commands if no match yet": the length it matches, or 0
SecondTry(d, c, t) ==
    IF c + 2 <= Len(d) /\ InTable(t, Slice(d, c, c + 2)) THEN 2 ELSE 0

\* mutant: the guard admits a prefix that ends the buffer
LenFieldAvailable_OffByOne(d, c, cmd_len) == c + cmd_len <= Len(d)

\* the guard of the read of the two length bytes
LenFieldAvailable(d, c, cmd_len) == c + cmd_len + 1 < Len(d)

\* the indexes data[...] is subscripted at while param_len is computed: the
\* high byte is read only when a further byte follows it
IndexReads(d, c, cmd_len) ==
    IF cmd_len >= 3 /\ LenFieldAvailable(d, c, cmd_len)
    THEN {c + cmd_len} \cup
         (IF c + cmd_len + 2 < Len(d) THEN {c + cmd_len + 1} ELSE {})
    ELSE {}

\* a subscript past the end raises IndexError
IndexError(d, c, cmd_len) == \E k \in IndexReads(d, c, cmd_len) : k >= Len(d)

\* mutant: a length field is read after a prefix of any length
ParamLen_AnyPrefix(d, c, cmd_len) ==
    IF LenFieldAvailable(d, c, cmd_len)
    THEN At(d, c + cmd_len) +
         (IF c + cmd_len + 2 < Len(d) THEN At(d, c + cmd_len + 1) * 256 ELSE 0)
    ELSE 0

\* mutant: the high length byte is ignored
ParamLen_LowByteOnly(d, c, cmd_len) ==
    IF cmd_len >= 3 /\ LenFieldAvailable(d, c, cmd_len)
    THEN At(d, c + cmd_len)
    ELSE 0

ParamLen(d, c, cmd_len) ==
    IF cmd_len >= 3 /\ LenFieldAvailable(d, c, cmd_len)
    THEN At(d, c + cmd_len) +
         (IF c + cmd_len + 2 < Len(d) THEN At(d, c + cmd_len + 1) * 256 ELSE 0)
    ELSE 0

\* mutant: the slice is taken without the bounds test
ParamsPresent_NoBound(d, c, cmd_len, param_len) == param_len > 0

\* whether the parameter bytes are extracted
ParamsPresent(d, c, cmd_len, param_len) ==
    param_len > 0 /\ c + cmd_len + 2 + param_len <= Len(d)

\* mutant: the slice starts at the length field
Params_FromLengthField(d, c, cmd_len, param_len) ==
    IF ParamsPresent(d, c, cmd_len, param_len)
    THEN Slice(d, c + cmd_len, c + cmd_len + param_len)
    ELSE <<>>

\* params: the extracted slice, or the empty list
Params(d, c, cmd_len, param_len) ==
    IF ParamsPresent(d, c, cmd_len, param_len)
    THEN Slice(d, c + cmd_len + 2, c + cmd_len + 2 + param_len)
    ELSE <<>>

\* mutant: the cursor moves past the length field but not the parameters
Advance_LengthFieldOnly(cmd_len, param_len) ==
    cmd_len + (IF param_len > 0 THEN 2 ELSE 0)

\* mutant: the cursor moves past the prefix only
Advance_PrefixOnly(cmd_len, param_len) == cmd_len

\* i += cmd_len + (param_len + 2 if param_len > 0 else 0)
Advance(cmd_len, param_len) ==
    cmd_len + (IF param_len > 0 THEN param_len + 2 ELSE 0)

\* mutants: the unknown path steps over the 2 bytes it records, or stays
UnknownAdvance_Two == 1 + 1

UnknownAdvance_Zero == 1 - 1

\* the advance on the unknown path
UnknownAdvance == 1

\* mutant: only the ESC byte is recorded
UnknownCmd_OneByte(d, c) == Slice(d, c, c + 1)

\* unknown_cmd = data[i:i+2]
UnknownCmd(d, c) == Slice(d, c, c + 2)

\* mutant: the set is assigned instead of added to
UnknownAdd_Assign(unknown, cmd) == {cmd}

\* self.unknown_commands.add(unknown_cmd)
UnknownAdd(unknown, cmd) == unknown \cup {cmd}

\* cmd_info of a match of cmd_len bytes at i with the given params
CmdInfo(d, c, t, cmd_len, params) ==
    [position    |-> c,
     command     |-> Hex(Slice(d, c, c + cmd_len)),
     description |-> Description(t, Slice(d, c, c + cmd_len)),
     parameters  |-> IF params # <<>> THEN Hex(params) ELSE <<>>]

\* defaultdict(int)
EmptyCount == [k \in {} |-> 0]

Count(found, cmd) == IF cmd \in DOMAIN found THEN found[cmd] ELSE 0

\* found[cmd] = n
Store(found, cmd, n) ==
    [k \in DOMAIN found \cup {cmd} |-> IF k = cmd THEN n ELSE found[k]]

\* mutant: the count is set to 1 instead of incremented
Inc_Reset(found, cmd) == Store(found, cmd, 1)

\* self.commands_found[cmd] += 1
Inc(found, cmd) == Store(found, cmd, Count(found, cmd) + 1)

\* which path one iteration at cursor i takes
Path(d, c, t) ==
    IF ~IsEsc(d, c) THEN "skip"
    ELSE IF MatchLen(d, c, t) > 0 THEN "match"
    ELSE IF SecondTry(d, c, t) > 0 THEN "second"
    ELSE "unknown"

\* One iteration on the frame s = [i, parsed_commands, commands_found,
\* unknown_commands, raised]: the frame after it.
Iterate(d, t, s) ==
    LET p == Path(d, s.i, t) IN
    IF p = "skip" THEN [s EXCEPT !.i = @ + 1]
    ELSE IF p = "match" THEN
        LET cmd_len   == MatchLen(d, s.i, t)
            param_len == ParamLen(d, s.i, cmd_len)
            params    == Params(d, s.i, cmd_len, param_len)
        IN  IF IndexError(d, s.i, cmd_len)
            THEN [s EXCEPT !.raised = TRUE]
            ELSE [s EXCEPT
                    !.parsed_commands =
                        Append(@, CmdInfo(d, s.i, t, cmd_len, params)),
                    !.commands_found = Inc(@, Slice(d, s.i, s.i + cmd_len)),
                    !.i = @ + Advance(cmd_len, param_len)]
    ELSE IF p = "second" THEN
        [s EXCEPT
            !.parsed_commands = Append(@, CmdInfo(d, s.i, t, 2, <<>>)),
            !.commands_found = Inc(@, Slice(d, s.i, s.i + 2)),
            !.i = @ + 2]
    ELSE
        [s EXCEPT
            !.unknown_commands = UnknownAdd(@, UnknownCmd(d, s.i)),
            !.i = @ + UnknownAdvance]

\* the byte ranges one iteration at cursor i consumes: the skipped or
\* stepped-over byte, or the matched prefix and, when parameters are
\* extracted, the length field with the parameter bytes
StepSpans(d, c, t) ==
    LET p == Path(d, c, t) IN
    IF p = "skip" THEN << <<c, c + 1>> >>
    ELSE IF p = "match" THEN
        LET cmd_len   == MatchLen(d, c, t)
            param_len == ParamLen(d, c, cmd_len)
        IN  IF IndexError(d, c, cmd_len) THEN << >>
            ELSE IF ParamsPresent(d, c, cmd_len, param_len)
            THEN << <<c, c + cmd_len>>,
                    <<c + cmd_len, c + cmd_len + 2 + param_len>> >>
            ELSE << <<c, c + cmd_len>> >>
    ELSE IF p = "second" THEN << <<c, c + 2>> >>
    ELSE << <<c, c + UnknownAdvance>> >>

StepReads(d, c, t) ==
    IF Path(d, c, t) = "match" THEN IndexReads(d, c, MatchLen(d, c, t)) ELSE {}

\* the while loop run to its end from frame s
RECURSIVE RunLoop(_, _, _)
RunLoop(d, t, s) ==
    IF s.raised \/ s.i >= Len(d) THEN s
    ELSE RunLoop(d, t, Iterate(d, t, s))

\* parse_packet(d) run as a whole on a parser with the given counts and
\* unknown set: the frame at its return
ParsePacket(d, t, found, unknown) ==
    RunLoop(d, t, [i |-> 0, parsed_commands |-> <<>>,
                   commands_found |-> found, unknown_commands |-> unknown,
                   raised |-> FALSE])

\* parse_packet run on each buffer of ds in turn, one call after the other
RECURSIVE ParseAll(_, _, _, _)
ParseAll(ds, t, found, unknown) ==
    IF ds = <<>>
    THEN [commands_found |-> found, unknown_commands |-> unknown]
    ELSE LET s == ParsePacket(Head(ds), t, found, unknown) IN
         ParseAll(Tail(ds), t, s.commands_found, s.unknown_commands)

----------------------------------------------------------------------------
(* Inputs *)

\* the byte values buffers are built from: ESC, the bytes of the table keys
\* ESC @ and ESC ( G, small length values, and 0xFF
Bytes == {0, 1, ESC, 40, 64, 71, 255}

\* every buffer over Bytes of at most MaxLen bytes
ShortBuffers == UNION {[1..n -> Bytes] : n \in 0..MaxLen}

\* the table keys that may carry a parameter block
CompoundKeys(t) == {k \in Keys(t) : Len(k) >= 3}

\* framed buffers: something before, a compound prefix, a little-endian
\* length field declaring n, the payload (all n bytes of it, or one byte
\* short), something after
DeclaredLens == {0, 1, 2, 3, 256, 257}

Framed(pre, key, n, m, b, post) ==
    pre \o key \o <<n % 256, n \div 256>> \o Fill(b, m) \o post

FramedBuffers ==
    {Framed(f[1], f[2], f[3], f[3] - f[4], f[5], f[6]) :
        f \in {g \in {<<>>, <<0>>, <<ESC, 255>>}
                     \X {<<ESC, 40, 71>>, <<ESC, 40, 85>>}
                     \X DeclaredLens \X {0, 1} \X {0, ESC}
                     \X {<<>>, <<ESC, 64>>, <<ESC>>} : g[3] >= g[4]}}

\* the buffers a single call is checked on
Buffers == ShortBuffers \cup FramedBuffers

----------------------------------------------------------------------------
(* parse_packet as a state machine *)

\* EpsonDTGDriver(connection_type=ct): no device, both flags False; called
\* and value hold the last method called and what it returned
NewDriver(ct) ==
    [connection_type  |-> ct,
     device           |-> FALSE,
     interface        |-> FALSE,
     endpoint_in      |-> FALSE,
     endpoint_out     |-> FALSE,
     is_connected     |-> FALSE,
     is_initialized   |-> FALSE,
     current_position |-> <<0, 0>>,
     called           |-> "none",
     value            |-> "none"]

\* a parser output file that cannot be opened
NoFile == [readable |-> FALSE, has_parsed_data |-> FALSE, parsed_data |-> <<>>]

\* a CommandDictionary whose database file does not exist: no command; n
\* counts the calls made, called is the last method called, file the file of
\* the last import, count what the last import returned and added what the
\* last add_command returned
NewDictionary ==
    [commands |-> {}, n |-> 0, called |-> "none", file |-> NoFile,
     count |-> 0, added |-> FALSE]

\* a new ESCPParser, no call made yet
FreshParser ==
    /\ commands_found = EmptyCount
    /\ unknown_commands = {}
    /\ parsed_data = <<>>
    /\ data = <<>>
    /\ i = 0
    /\ parsed_commands = <<>>
    /\ pc = "idle"
    /\ steps = 0
    /\ spans = <<>>
    /\ reads = {}
    /\ packets = <<>>
    /\ pk = 0
    /\ result = "none"
    /\ tokenized = {}
    /\ calls = <<>>
    /\ returned = <<>>
    /\ ops = <<>>
    /\ reports = <<>>

Fresh ==
    /\ FreshParser
    /\ th = <<>>
    /\ drv = NewDriver("USB")
    /\ dic = NewDictionary

Init == table = ESCP_COMMANDS /\ Fresh

\* mutant: the record list is kept from the call before
Enter_KeepRecords(d) ==
    /\ data' = d
    /\ i' = 0
    /\ parsed_commands' = parsed_commands
    /\ steps' = 0
    /\ spans' = <<>>
    /\ reads' = {}
    /\ pc' = "loop"

\* parse_packet(d) is entered: parsed_commands = [], i = 0
Enter(d) ==
    /\ data' = d
    /\ i' = 0
    /\ parsed_commands' = <<>>
    /\ steps' = 0
    /\ spans' = <<>>
    /\ reads' = {}
    /\ pc' = "loop"

\* an outside caller calls parse_packet(d)
ParsePacketCall(d) ==
    /\ pc \in {"idle", "returned", "file_returned"}
    /\ Enter(d)
    /\ ops' = Append(ops, "parse_packet")
    /\ UNCHANGED <<table, commands_found, unknown_commands, parsed_data,
                   packets, pk, result, tokenized, calls, returned, reports,
                   th, drv, dic>>

Frame ==
    [i |-> i, parsed_commands |-> parsed_commands,
     commands_found |-> commands_found,
     unknown_commands |-> unknown_commands, raised |-> FALSE]

\* one iteration of the while loop. An exception
\* leaves parse_packet: inside parse_file it is caught by the outer handler,
\* which returns False.
LoopStep ==
    /\ pc = "loop"
    /\ i < Len(data)
    /\ LET s == Iterate(data, table, Frame) IN
        /\ i' = s.i
        /\ parsed_commands' = s.parsed_commands
        /\ commands_found' = s.commands_found
        /\ unknown_commands' = s.unknown_commands
        /\ pc' = IF ~s.raised THEN "loop"
                 ELSE IF pk > 0 THEN "file_returned" ELSE "raised"
        /\ result' = IF s.raised /\ pk > 0 THEN "False" ELSE result
        /\ pk' = IF s.raised THEN 0 ELSE pk
    /\ steps' = steps + 1
    /\ spans' = spans \o StepSpans(data, i, table)
    /\ reads' = reads \cup StepReads(data, i, table)
    /\ UNCHANGED <<table, parsed_data, data, packets, tokenized, calls,
                   returned, ops, reports, th, drv, dic>>

\* the byte at the cursor is not ESC
SkipByte ==
    /\ Path(data, i, table) = "skip"
    /\ LoopStep

\* an ESC that starts a table entry
EscapeMatched ==
    /\ Path(data, i, table) \in {"match", "second"}
    /\ LoopStep

\* an ESC that starts no table entry
EscapeUnknown ==
    /\ Path(data, i, table) = "unknown"
    /\ LoopStep

\* the loop ends and parse_packet returns parsed_commands to an outside caller
Return ==
    /\ pc = "loop"
    /\ i >= Len(data)
    /\ pk = 0
    /\ pc' = "returned"
    /\ calls' = Append(calls, data)
    /\ returned' = Append(returned, parsed_commands)
    /\ UNCHANGED <<table, commands_found, unknown_commands, parsed_data, data,
                   i, parsed_commands, steps, spans, reads, packets, pk,
                   result, tokenized, ops, reports, th, drv, dic>>

\* one call of parse_packet on a new parser, on any buffer of Buffers
CallOnce ==
    /\ pc = "idle"
    /\ \E d \in Buffers : ParsePacketCall(d)

Next == CallOnce \/ SkipByte \/ EscapeMatched \/ EscapeUnknown \/ Return

Spec == Init /\ [][Next]_vars

----------------------------------------------------------------------------
(* The tokenizer over an extended table *)

\* ESCP_COMMANDS with entries added ("Add more commands as discovered"): a
\* 2-byte key that begins the ESC ( family, and 4- and 5-byte keys that begin
\* with keys of the table
ExtendedTable ==
    ESCP_COMMANDS \cup {
        <<<<ESC, 40>>,           "Extended command group">>,
        <<<<ESC, 64, 1, 0>>,     "Initialize printer (extended)">>,
        <<<<ESC, 40, 71, 1, 0>>, "Select graphics mode (extended)">> }

Tables == {ESCP_COMMANDS, ExtendedTable}

InitTable == table \in Tables /\ Fresh

\* one call on a buffer of Buffers, or on the bytes of a key of the table
\* alone or followed by one byte
CallTable ==
    /\ pc = "idle"
    /\ \E d \in Buffers \cup Keys(table)
                \cup {key \o <<b>> : key \in Keys(table), b \in Bytes} :
          ParsePacketCall(d)

NextTable == CallTable \/ SkipByte \/ EscapeMatched \/ EscapeUnknown \/ Return

SpecTable == InitTable /\ [][NextTable]_vars

----------------------------------------------------------------------------
(* The tokenizer on buffers whose parameter blocks hold escape sequences *)

\* parameter bytes that look like commands: ESC @, an unknown sequence, a
\* whole compound command, a lone ESC, and 27 bytes (so that the low length
\* byte is itself ESC) of ESC @ repeated
Payloads ==
    {<<ESC, 64>>, <<ESC, 255>>, <<ESC, 40, 71, 1, 0, 64>>, <<ESC>>,
     [k \in 1..ESC |-> IF k % 2 = 1 THEN ESC ELSE 64]}

\* something before, ESC ( G, the length of the payload little-endian, the
\* payload, something after
PayloadBuffers ==
    {pre \o <<ESC, 40, 71>> \o <<Len(pl) % 256, Len(pl) \div 256>> \o pl
         \o post :
        pre \in {<<>>, <<ESC, 255>>}, pl \in Payloads,
        post \in {<<>>, <<0>>, <<ESC, 64>>, <<ESC, 255>>}}

CallPayload ==
    /\ pc = "idle"
    /\ \E d \in PayloadBuffers : ParsePacketCall(d)

NextPayload ==
    CallPayload \/ SkipByte \/ EscapeMatched \/ EscapeUnknown \/ Return

SpecPayload == Init /\ [][NextPayload]_vars

----------------------------------------------------------------------------
(* parse_file *)

\* the most packets a capture file of the model holds
MaxPackets == 3

\* packet['data'].replace(' ', '')
RECURSIVE StripSpaces(_)
StripSpaces(text) ==
    IF text = <<>> THEN <<>>
    ELSE IF Head(text) = " " THEN StripSpaces(Tail(text))
    ELSE <<Head(text)>> \o StripSpaces(Tail(text))

\* bytes(list): ValueError unless every item is in range(0, 256)
ToBytes(items) ==
    IF \E k \in 1..Len(items) : items[k] < 0 \/ items[k] > 255
    THEN [error |-> "ValueError", bytes |-> <<>>]
    ELSE [error |-> "", bytes |-> items]

\* What the body of the packet loop does with one packet before it calls
\* parse_packet: "continue" (no 'data' key, hex text that does not parse,
\* a type that is neither str nor list), "raise" (bytes(list) raises: no
\* handler inside the loop), or "parse" with the bytes to tokenize.
PacketBytes(packet) ==
    IF ~packet.has_data THEN [do |-> "continue", bytes |-> <<>>]
    ELSE IF packet.type = "str" THEN
        LET r == FromHex(StripSpaces(packet.text)) IN
        IF r.error # "" THEN [do |-> "continue", bytes |-> <<>>]
        ELSE [do |-> "parse", bytes |-> r.bytes]
    ELSE IF packet.type = "list" THEN
        LET r == ToBytes(packet.items) IN
        IF r.error # "" THEN [do |-> "raise", bytes |-> <<>>]
        ELSE [do |-> "parse", bytes |-> r.bytes]
    ELSE [do |-> "continue", bytes |-> <<>>]

\* a packet: whether it has a 'data' key, the type of the value, the value
\* (text of a str, items of a list), and the metadata passed through
Packet(has_data, type, text, items, timestamp) ==
    [has_data |-> has_data, type |-> type, text |-> text, items |-> items,
     timestamp |-> timestamp, direction |-> "OUT"]

\* the packets capture files are made of
PacketCatalogue == {
    Packet(TRUE, "str", <<"1", "b", "4", "0">>, <<>>, "t1"),
    Packet(TRUE, "str", <<"1", "B", " ", "2", "8", " ", "4", "7", " ",
                          "0", "1", " ", "0", "0", " ", "4", "1">>, <<>>, "t2"),
    Packet(TRUE, "str", <<"1", "b", "f", "f">>, <<>>, ""),
    Packet(TRUE, "str", <<"z", "z">>, <<>>, ""),
    Packet(TRUE, "str", <<"1", "b", "4">>, <<>>, ""),
    Packet(TRUE, "list", <<>>, <<ESC, 64, ESC, 40, 71>>, "t3"),
    Packet(TRUE, "list", <<>>, <<ESC, 300>>, ""),
    Packet(TRUE, "other", <<>>, <<>>, ""),
    Packet(FALSE, "other", <<>>, <<>>, "") }

\* what json.load gives: a file that cannot be read or parsed, a document
\* without 'packets', or a document with a packet list
Files ==
    {[kind |-> "unreadable", packets |-> <<>>],
     [kind |-> "nopackets", packets |-> <<>>]}
    \cup {[kind |-> "packets", packets |-> ps] :
            ps \in UNION {[1..n -> PacketCatalogue] : n \in 0..MaxPackets}}

\* parse_file(f) up to the packet loop: the exception of open or json.load
\* is caught and False returned, as for a document without 'packets'
ParseFileCall(f) ==
    /\ pc \in {"idle", "returned", "file_returned"}
    /\ IF f.kind = "packets"
       THEN /\ packets' = f.packets
            /\ pk' = 1
            /\ pc' = "file"
            /\ result' = "none"
       ELSE /\ packets' = <<>>
            /\ pk' = 0
            /\ pc' = "file_returned"
            /\ result' = "False"
    /\ tokenized' = {}
    /\ ops' = Append(ops, "parse_file")
    /\ UNCHANGED <<table, commands_found, unknown_commands, parsed_data, data,
                   i, parsed_commands, steps, spans, reads, calls, returned,
                   reports, th, drv, dic>>

\* a packet the loop passes over with continue, or that has no 'data'
SkipPacket ==
    /\ pc = "file"
    /\ pk <= Len(packets)
    /\ PacketBytes(packets[pk]).do = "continue"
    /\ pk' = pk + 1
    /\ UNCHANGED <<table, commands_found, unknown_commands, parsed_data, data,
                   i, parsed_commands, pc, steps, spans, reads, packets,
                   result, tokenized, calls, returned, ops, reports, th,
                   drv, dic>>

\* mutant: the handler puts the parser back to its state at construction
PacketRaises_Rollback ==
    /\ pc = "file"
    /\ pk <= Len(packets)
    /\ PacketBytes(packets[pk]).do = "raise"
    /\ pk' = 0
    /\ pc' = "file_returned"
    /\ result' = "False"
    /\ commands_found' = EmptyCount
    /\ unknown_commands' = {}
    /\ parsed_data' = <<>>
    /\ UNCHANGED <<table, data, i, parsed_commands, steps, spans, reads,
                   packets, tokenized, calls, returned, ops, reports, th,
                   drv, dic>>

\* bytes(packet['data']) raises: the outer handler returns False
PacketRaises ==
    /\ pc = "file"
    /\ pk <= Len(packets)
    /\ PacketBytes(packets[pk]).do = "raise"
    /\ pk' = 0
    /\ pc' = "file_returned"
    /\ result' = "False"
    /\ UNCHANGED <<table, commands_found, unknown_commands, parsed_data, data,
                   i, parsed_commands, steps, spans, reads, packets,
                   tokenized, calls, returned, ops, reports, th, drv, dic>>

\* parsed = self.parse_packet(packet_data)
TokenizePacket ==
    /\ pc = "file"
    /\ pk <= Len(packets)
    /\ PacketBytes(packets[pk]).do = "parse"
    /\ Enter(PacketBytes(packets[pk]).bytes)
    /\ tokenized' = tokenized \cup {pk}
    /\ UNCHANGED <<table, commands_found, unknown_commands, parsed_data,
                   packets, pk, result, calls, returned, ops, reports, th,
                   drv, dic>>

\* mutant: the list is stored also when it is empty
ReturnToFile_StoreAll ==
    /\ pc = "loop"
    /\ i >= Len(data)
    /\ pk > 0
    /\ parsed_data' =
         Append(parsed_data,
                [timestamp |-> packets[pk].timestamp,
                 direction |-> packets[pk].direction,
                 parsed_commands |-> parsed_commands])
    /\ pk' = pk + 1
    /\ pc' = "file"
    /\ UNCHANGED <<table, commands_found, unknown_commands, data, i,
                   parsed_commands, steps, spans, reads, packets, result,
                   tokenized, calls, returned, ops, reports, th, drv, dic>>

\* mutant: a list of one record is not stored
ReturnToFile_DropSingle ==
    /\ pc = "loop"
    /\ i >= Len(data)
    /\ pk > 0
    /\ parsed_data' =
         IF Len(parsed_commands) > 1
         THEN Append(parsed_data,
                     [timestamp |-> packets[pk].timestamp,
                      direction |-> packets[pk].direction,
                      parsed_commands |-> parsed_commands])
         ELSE parsed_data
    /\ pk' = pk + 1
    /\ pc' = "file"
    /\ UNCHANGED <<table, commands_found, unknown_commands, data, i,
                   parsed_commands, steps, spans, reads, packets, result,
                   tokenized, calls, returned, ops, reports, th, drv, dic>>

\* parse_packet returns to the packet loop: a non-empty list is stored
ReturnToFile ==
    /\ pc = "loop"
    /\ i >= Len(data)
    /\ pk > 0
    /\ parsed_data' =
         IF parsed_commands # <<>>
         THEN Append(parsed_data,
                     [timestamp |-> packets[pk].timestamp,
                      direction |-> packets[pk].direction,
                      parsed_commands |-> parsed_commands])
         ELSE parsed_data
    /\ pk' = pk + 1
    /\ pc' = "file"
    /\ UNCHANGED <<table, commands_found, unknown_commands, data, i,
                   parsed_commands, steps, spans, reads, packets, result,
                   tokenized, calls, returned, ops, reports, th, drv, dic>>

\* the packet loop ends: return True
FileDone ==
    /\ pc = "file"
    /\ pk > Len(packets)
    /\ pk' = 0
    /\ pc' = "file_returned"
    /\ result' = "True"
    /\ UNCHANGED <<table, commands_found, unknown_commands, parsed_data, data,
                   i, parsed_commands, steps, spans, reads, packets,
                   tokenized, calls, returned, ops, reports, th, drv, dic>>

\* one call of parse_file on a new parser
FileCallOnce ==
    /\ pc = "idle"
    /\ \E f \in Files : ParseFileCall(f)

NextFile ==
    \/ FileCallOnce \/ SkipPacket \/ PacketRaises \/ TokenizePacket
    \/ SkipByte \/ EscapeMatched \/ EscapeUnknown \/ ReturnToFile \/ FileDone

SpecFile == Init /\ [][NextFile]_vars

----------------------------------------------------------------------------
(* Several calls of parse_packet on one parser *)

\* the most calls made on the parser
MaxCalls == 2

\* the buffers of those calls
SeqBuffers ==
    {<<>>, <<ESC>>, <<ESC, 64>>, <<ESC, 255, ESC, 64>>, <<ESC, 0, ESC, 64>>,
     <<64, ESC, 40, 71>>, <<ESC, 40, 71, 1, 0, 64>>,
     <<ESC, 40, 71, 2, 0, ESC, 64>>, <<ESC, 40, 71, 2, 0, ESC>>}

CallAgain ==
    /\ Len(calls) < MaxCalls
    /\ \E d \in SeqBuffers : ParsePacketCall(d)

NextSeq == CallAgain \/ SkipByte \/ EscapeMatched \/ EscapeUnknown \/ Return

SpecSeq == Init /\ [][NextSeq]_vars

----------------------------------------------------------------------------
(* Two threads calling parse_packet on one parser *)

Threads == {1, 2}

\* the buffers the threads parse
ThreadBuffers ==
    {<<>>, <<0>>, <<ESC>>, <<ESC, 64>>, <<ESC, 255>>, <<ESC, 64, ESC, 64>>,
     <<ESC, 255, ESC, 64>>, <<ESC, 40, 71>>, <<ESC, 40, 71, 1, 0, 64>>}

IdleFrame ==
    [pc |-> "idle", data |-> <<>>, i |-> 0, parsed_commands |-> <<>>,
     cmd |-> <<>>, count |-> 0, next_i |-> 0]

InitThreads ==
    /\ table = ESCP_COMMANDS
    /\ FreshParser
    /\ th = [t \in Threads |-> IdleFrame]
    /\ drv = NewDriver("USB")
    /\ dic = NewDictionary

ParserUnchanged ==
    UNCHANGED <<table, parsed_data, data, i, parsed_commands, pc, steps,
                spans, reads, packets, pk, result, tokenized, calls,
                returned, ops, reports, drv, dic>>

\* thread t calls parse_packet(d)
ThreadCall(t) ==
    /\ th[t].pc = "idle"
    /\ \E d \in ThreadBuffers :
          th' = [th EXCEPT ![t] = [IdleFrame EXCEPT !.pc = "loop", !.data = d]]
    /\ UNCHANGED <<commands_found, unknown_commands>>
    /\ ParserUnchanged

\* the frame of thread t as Iterate takes it
ThreadFrame(t) ==
    [i |-> th[t].i, parsed_commands |-> th[t].parsed_commands,
     commands_found |-> commands_found,
     unknown_commands |-> unknown_commands, raised |-> FALSE]

\* Thread t runs one iteration that does not match: a skipped byte, or an
\* unknown sequence added to the shared set (set.add is one step).
ThreadPass(t) ==
    /\ th[t].pc = "loop"
    /\ th[t].i < Len(th[t].data)
    /\ Path(th[t].data, th[t].i, table) \in {"skip", "unknown"}
    /\ LET s == Iterate(th[t].data, table, ThreadFrame(t)) IN
        /\ th' = [th EXCEPT ![t].i = s.i]
        /\ unknown_commands' = s.unknown_commands
    /\ UNCHANGED commands_found
    /\ ParserUnchanged

\* Thread t runs an iteration that matches, up to the read of
\* self.commands_found[cmd] in "self.commands_found[cmd] += 1": the record
\* is appended to its own list, the count it read is kept for the store.
ThreadMatchLoad(t) ==
    /\ th[t].pc = "loop"
    /\ th[t].i < Len(th[t].data)
    /\ Path(th[t].data, th[t].i, table) \in {"match", "second"}
    /\ LET s == Iterate(th[t].data, table, ThreadFrame(t))
           cmd_len == IF MatchLen(th[t].data, th[t].i, table) > 0
                      THEN MatchLen(th[t].data, th[t].i, table) ELSE 2
           cmd == Slice(th[t].data, th[t].i, th[t].i + cmd_len)
       IN  th' = [th EXCEPT
                    ![t].pc = IF s.raised THEN "raised" ELSE "store",
                    ![t].parsed_commands = s.parsed_commands,
                    ![t].cmd = cmd,
                    ![t].count = Count(commands_found, cmd),
                    ![t].next_i = s.i]
    /\ UNCHANGED <<commands_found, unknown_commands>>
    /\ ParserUnchanged

\* Thread t stores the incremented count and moves its cursor
ThreadMatchStore(t) ==
    /\ th[t].pc = "store"
    /\ commands_found' = Store(commands_found, th[t].cmd, th[t].count + 1)
    /\ th' = [th EXCEPT ![t].pc = "loop", ![t].i = th[t].next_i]
    /\ UNCHANGED unknown_commands
    /\ ParserUnchanged

\* the loop of thread t ends and its call returns
ThreadReturn(t) ==
    /\ th[t].pc = "loop"
    /\ th[t].i >= Len(th[t].data)
    /\ th' = [th EXCEPT ![t].pc = "returned"]
    /\ UNCHANGED <<commands_found, unknown_commands>>
    /\ ParserUnchanged

NextThreads ==
    \E t \in Threads :
        \/ ThreadCall(t) \/ ThreadPass(t) \/ ThreadMatchLoad(t)
        \/ ThreadMatchStore(t) \/ ThreadReturn(t)

SpecThreads == InitThreads /\ [][NextThreads]_vars

----------------------------------------------------------------------------
(* The statistics reads, and any sequence of calls on one parser *)

\* the most calls made on the parser
MaxOps == 4

\* sum(self.commands_found.values()), over the keys in S
RECURSIVE SumCounts(_, _)
SumCounts(found, S) ==
    IF S = {} THEN 0
    ELSE LET k == CHOOSE x \in S : TRUE IN
         found[k] + SumCounts(found, S \ {k})

TotalCommands(found) == SumCounts(found, DOMAIN found)

\* the frequency table: cmd.hex() with its count, for every item of
\* commands_found (print_statistics prints these lines by decreasing count)
CommandFrequency(found) == {<<Hex(k), found[k]>> : k \in DOMAIN found}

\* what a read reports, as the n-th call on the parser
Report(op, n, found, unknown) ==
    [op        |-> op,
     at        |-> n,
     total     |-> TotalCommands(found),
     unique    |-> Cardinality(DOMAIN found),
     unknown   |-> Cardinality(unknown),
     frequency |-> CommandFrequency(found)]

\* a read: the parser is left as it is, the report is produced
Read(op) ==
    /\ pc \in {"idle", "returned", "file_returned"}
    /\ Len(ops) < MaxOps
    /\ ops' = Append(ops, op)
    /\ reports' = Append(reports, Report(op, Len(ops) + 1, commands_found,
                                         unknown_commands))
    /\ UNCHANGED <<table, commands_found, unknown_commands, parsed_data, data,
                   i, parsed_commands, pc, steps, spans, reads, packets, pk,
                   result, tokenized, calls, returned, th, drv, dic>>

\* mutant: the read looks every unknown sequence up in commands_found, and
\* a lookup in a defaultdict inserts the key
PrintStatistics_Inserting ==
    /\ pc \in {"idle", "returned", "file_returned"}
    /\ Len(ops) < MaxOps
    /\ ops' = Append(ops, "print_statistics")
    /\ commands_found' =
         [k \in DOMAIN commands_found \cup unknown_commands |->
            Count(commands_found, k)]
    /\ reports' = Append(reports, Report("print_statistics", Len(ops) + 1,
                                         commands_found', unknown_commands))
    /\ UNCHANGED <<table, unknown_commands, parsed_data, data,
                   i, parsed_commands, pc, steps, spans, reads, packets, pk,
                   result, tokenized, calls, returned, th, drv, dic>>

\* print_statistics()
PrintStatistics == Read("print_statistics")

\* mutant: parsed_data is emptied once it has been written out
SaveParsedData_Flush ==
    /\ pc \in {"idle", "returned", "file_returned"}
    /\ Len(ops) < MaxOps
    /\ ops' = Append(ops, "save_parsed_data")
    /\ reports' =
         IF parsed_data = <<>> THEN reports
         ELSE Append(reports, Report("save_parsed_data", Len(ops) + 1,
                                     commands_found, unknown_commands))
    /\ parsed_data' = <<>>
    /\ UNCHANGED <<table, commands_found, unknown_commands, data,
                   i, parsed_commands, pc, steps, spans, reads, packets, pk,
                   result, tokenized, calls, returned, th, drv, dic>>

\* save_parsed_data(output_filename): False at once when parsed_data is
\* empty; otherwise the document with the statistics block is built
SaveParsedData ==
    IF parsed_data = <<>>
    THEN /\ pc \in {"idle", "returned", "file_returned"}
         /\ Len(ops) < MaxOps
         /\ ops' = Append(ops, "save_parsed_data")
         /\ UNCHANGED <<table, commands_found, unknown_commands, parsed_data,
                        data, i, parsed_commands, pc, steps, spans, reads,
                        packets, pk, result, tokenized, calls, returned,
                        reports, th, drv, dic>>
    ELSE Read("save_parsed_data")

\* the buffers and files of the calls
OpBuffers == {<<ESC, 64>>, <<ESC, 255, ESC, 64>>, <<ESC, 40, 71, 1, 0, 64>>}

OpFiles ==
    {[kind |-> "unreadable", packets |-> <<>>],
     [kind |-> "packets", packets |->
        << Packet(TRUE, "str", <<"1", "b", "4", "0">>, <<>>, "t1") >>],
     [kind |-> "packets", packets |->
        << Packet(TRUE, "list", <<>>, <<ESC, 64, ESC, 40, 71>>, "t3"),
           Packet(TRUE, "str", <<"1", "b", "f", "f">>, <<>>, "") >>],
     [kind |-> "packets", packets |->
        << Packet(TRUE, "str", <<"z", "z">>, <<>>, ""),
           Packet(TRUE, "str", <<"1", "b", "4", "0">>, <<>>, "t1"),
           Packet(TRUE, "list", <<>>, <<ESC, 300>>, "") >>]}

\* a caller calls parse_packet, or parse_file
AnyPacket ==
    /\ Len(ops) < MaxOps
    /\ \E d \in OpBuffers : ParsePacketCall(d)

AnyFile ==
    /\ Len(ops) < MaxOps
    /\ \E f \in OpFiles : ParseFileCall(f)

NextParser ==
    \/ AnyPacket \/ AnyFile \/ PrintStatistics \/ SaveParsedData
    \/ SkipPacket \/ PacketRaises \/ TokenizePacket
    \/ SkipByte \/ EscapeMatched \/ EscapeUnknown
    \/ Return \/ ReturnToFile \/ FileDone

SpecParser == Init /\ [][NextParser]_vars

----------------------------------------------------------------------------
(* EpsonDTGDriver: connect, disconnect, initialize and a command call *)

\* the parser takes no part in the calls on the driver and the dictionary
ParserIdle ==
    UNCHANGED <<table, commands_found, unknown_commands, parsed_data, data, i,
                parsed_commands, pc, steps, spans, reads, packets, pk, result,
                tokenized, calls, returned, ops, reports, th>>

\* the method returns val
Done(d, name, val) == [d EXCEPT !.called = name, !.value = val]

\* What the USB library does during _connect_usb: usb.core.find finds the
\* device, finds none, raises, or finds none for the given model and raises
\* in the loop over the product ids; then is_kernel_driver_active,
\* set_configuration or the read of the interface may raise; eps are the
\* directions of the endpoints the interface has.
UsbOutcomes ==
    [find : {"found", "none", "raises", "none_raises"},
     fail : {"none", "kernel", "configuration", "interface"},
     eps  : SUBSET {"in", "out"}]

\* _connect_usb()
ConnectUsb(d, o) ==
    IF o.find = "raises" THEN Done(d, "connect", "False")
    ELSE IF o.find \in {"none", "none_raises"}
    THEN Done([d EXCEPT !.device = FALSE], "connect", "False")
    ELSE IF o.fail \in {"kernel", "configuration", "interface"}
    THEN Done([d EXCEPT !.device = TRUE], "connect", "False")
    ELSE LET e == [d EXCEPT !.device = TRUE,
                            !.interface = TRUE,
                            !.endpoint_in = @ \/ "in" \in o.eps,
                            !.endpoint_out = @ \/ "out" \in o.eps]
         IN  IF ~e.endpoint_in \/ ~e.endpoint_out
             THEN Done(e, "connect", "False")
             ELSE Done([e EXCEPT !.is_connected = TRUE], "connect", "True")

\* connect()
Connect(d, o) ==
    IF d.is_connected THEN Done(d, "connect", "True")
    ELSE IF d.connection_type = "USB" THEN ConnectUsb(d, o)
    ELSE Done(d, "connect", "False")

\* mutant: disconnect leaves is_initialized as it is
Disconnect_KeepInitialized(d, release) ==
    IF ~d.is_connected THEN Done(d, "disconnect", "True")
    ELSE IF d.device /\ d.interface /\ release = "raises"
    THEN Done(d, "disconnect", "False")
    ELSE Done([d EXCEPT !.device = FALSE, !.interface = FALSE,
                        !.endpoint_in = FALSE, !.endpoint_out = FALSE,
                        !.is_connected = FALSE],
              "disconnect", "True")

\* disconnect(): usb.util.release_interface returns or raises (an exception
\* of attach_kernel_driver is passed over)
Disconnect(d, release) ==
    IF ~d.is_connected THEN Done(d, "disconnect", "True")
    ELSE IF d.device /\ d.interface /\ release = "raises"
    THEN Done(d, "disconnect", "False")
    ELSE Done([d EXCEPT !.device = FALSE, !.interface = FALSE,
                        !.endpoint_in = FALSE, !.endpoint_out = FALSE,
                        !.is_connected = FALSE, !.is_initialized = FALSE],
              "disconnect", "True")

\* what device.write does: writes the bytes, writes none, or raises
WriteOutcomes == {"written", "zero", "raises"}

\* _send_command(command): whether it returns True
SendCommand(d, w) == d.is_connected /\ d.endpoint_out /\ w = "written"

\* initialize(): INIT, GRAPHICS_MODE and SET_UNIT are sent in turn, ws are
\* the outcomes of the writes
Initialize(d, ws) ==
    IF ~d.is_connected THEN Done(d, "initialize", "False")
    ELSE IF d.is_initialized THEN Done(d, "initialize", "True")
    ELSE IF \A k \in 1..3 : SendCommand(d, ws[k])
    THEN Done([d EXCEPT !.is_initialized = TRUE,
                        !.current_position = <<0, 0>>],
              "initialize", "True")
    ELSE Done(d, "initialize", "False")

\* set_position(x, y): the two position commands are sent in turn
SetPosition(d, x, y, ws) ==
    IF ~d.is_initialized THEN Done(d, "set_position", "False")
    ELSE IF \A k \in 1..2 : SendCommand(d, ws[k])
    THEN Done([d EXCEPT !.current_position = <<x, y>>],
              "set_position", "True")
    ELSE Done(d, "set_position", "False")

DriverConnect ==
    /\ \E o \in UsbOutcomes : drv' = Connect(drv, o)
    /\ UNCHANGED dic
    /\ ParserIdle

DriverDisconnect ==
    /\ \E release \in {"ok", "raises"} : drv' = Disconnect(drv, release)
    /\ UNCHANGED dic
    /\ ParserIdle

DriverInitialize ==
    /\ \E ws \in [1..3 -> WriteOutcomes] : drv' = Initialize(drv, ws)
    /\ UNCHANGED dic
    /\ ParserIdle

DriverSetPosition ==
    /\ \E x \in {0, 1} : \E y \in {0, 1} : \E ws \in [1..2 -> WriteOutcomes] :
          drv' = SetPosition(drv, x, y, ws)
    /\ UNCHANGED dic
    /\ ParserIdle

\* a driver for a USB or a network connection
InitDriver ==
    /\ table = ESCP_COMMANDS
    /\ FreshParser
    /\ th = <<>>
    /\ drv \in {NewDriver("USB"), NewDriver("NETWORK")}
    /\ dic = NewDictionary

NextDriver ==
    DriverConnect \/ DriverDisconnect \/ DriverInitialize \/ DriverSetPosition

SpecDriver == InitDriver /\ [][NextDriver]_vars

----------------------------------------------------------------------------
(* CommandDictionary: add_command, search_by_hex and import_from_parser *)

MaxDictCalls == 3

CATEGORIES == {"INIT", "SETUP", "COLOR", "POSITION", "IMAGE", "WHITE",
               "QUALITY", "MAINT", "MISC", "UNKNOWN"}

\* str.upper() on one character of a hex text
Upper(ch) ==
    IF \E k \in 1..16 : HexDigits[k] = ch
    THEN HexUpper[CHOOSE k \in 1..16 : HexDigits[k] = ch]
    ELSE IF ch = "x" THEN "X" ELSE ch

UpperText(text) == [k \in 1..Len(text) |-> Upper(text[k])]

\* text.replace(pat, ''): the occurrences of pat are removed from left to
\* right
RECURSIVE RemoveAll(_, _)
RemoveAll(text, pat) ==
    IF Len(text) < Len(pat) THEN text
    ELSE IF SubSeq(text, 1, Len(pat)) = pat
    THEN RemoveAll(SubSeq(text, Len(pat) + 1, Len(text)), pat)
    ELSE <<text[1]>> \o RemoveAll(Tail(text), pat)

\* hex.upper().replace('0X', '').replace(' ', '')
Normalize(text) == RemoveAll(RemoveAll(UpperText(text), <<"0", "X">>), <<" ">>)

\* ' '.join of the pairs of digits of hex
FormatHex(hex) ==
    [k \in 1..(IF hex = <<>> THEN 0 ELSE 3 * (Len(hex) \div 2) - 1) |->
        IF k % 3 = 0 THEN " " ELSE hex[k - (k \div 3)]]

\* pat in text
Contains(pat, text) ==
    \E k \in 0..(Len(text) - Len(pat)) : SubSeq(text, k + 1, k + Len(pat)) = pat

\* search_by_hex(hex_pattern): the entries whose hex, spaces removed, holds
\* the normalized pattern
SearchByHex(cmds, hex_pattern) ==
    {e \in cmds : Contains(Normalize(hex_pattern), RemoveAll(e.hex, <<" ">>))}

\* add_command(...): False for an odd number of digits; otherwise the entry
\* is stored under cmd_id, in place of an entry already stored under it (the
\* date of the day and the write of the database file are left out)
AddCommand(cmds, cmd_id, hex_sequence, description, category, parameters) ==
    LET hex == Normalize(hex_sequence)
    IN  IF Len(hex) % 2 # 0
        THEN [ok |-> FALSE, commands |-> cmds]
        ELSE [ok |-> TRUE,
              commands |->
                {e \in cmds : e.id # cmd_id} \cup
                {[id          |-> cmd_id,
                  hex         |-> FormatHex(hex),
                  description |-> description,
                  category    |-> IF category \in CATEGORIES THEN category
                                                             ELSE "UNKNOWN",
                  parameters  |-> parameters,
                  verified    |-> FALSE]}]

\* desc.upper().replace(' ', '_') cut to 30 characters, on the descriptions
\* of ESCP_COMMANDS
CmdId(desc) ==
    CASE desc = "Initialize printer"
           -> "INITIALIZE_PRINTER"
      [] desc = "Select graphics mode"
           -> "SELECT_GRAPHICS_MODE"
      [] desc = "Set unit"
           -> "SET_UNIT"
      [] desc = "Set color selection"
           -> "SET_COLOR_SELECTION"
      [] desc = "Set ink density/type"
           -> "SET_INK_DENSITY/TYPE"
      [] desc = "Set page format"
           -> "SET_PAGE_FORMAT"
      [] desc = "Set page length"
           -> "SET_PAGE_LENGTH"
      [] desc = "Set absolute vertical position"
           -> "SET_ABSOLUTE_VERTICAL_POSITION"
      [] desc = "Set relative vertical position"
           -> "SET_RELATIVE_VERTICAL_POSITION"
      [] desc = "Set horizontal spacing"
           -> "SET_HORIZONTAL_SPACING"
      [] desc = "Set absolute horizontal position"
           -> "SET_ABSOLUTE_HORIZONTAL_POSITI"
      [] desc = "Set relative horizontal position"
           -> "SET_RELATIVE_HORIZONTAL_POSITI"
      [] desc = "Select print color"
           -> "SELECT_PRINT_COLOR"
      [] desc = "Select color tables"
           -> "SELECT_COLOR_TABLES"
      [] desc = "Graphics dot control"
           -> "GRAPHICS_DOT_CONTROL"
      [] desc = "Select bit image mode"
           -> "SELECT_BIT_IMAGE_MODE"
      [] desc = "Select single-density graphics"
           -> "SELECT_SINGLE-DENSITY_GRAPHICS"
      [] desc = "Select double-density graphics"
           -> "SELECT_DOUBLE-DENSITY_GRAPHICS"
      [] desc = "Select high-speed double-density graphics"
           -> "SELECT_HIGH-SPEED_DOUBLE-DENSI"
      [] desc = "Select quadruple-density graphics"
           -> "SELECT_QUADRUPLE-DENSITY_GRAPH"

\* _categorize_command(description), on the descriptions of ESCP_COMMANDS
Categorize(desc) ==
    CASE desc = "Initialize printer"
           -> "INIT"
      [] desc = "Select graphics mode"
           -> "IMAGE"
      [] desc = "Set unit"
           -> "SETUP"
      [] desc = "Set color selection"
           -> "COLOR"
      [] desc = "Set ink density/type"
           -> "COLOR"
      [] desc = "Set page format"
           -> "SETUP"
      [] desc = "Set page length"
           -> "SETUP"
      [] desc = "Set absolute vertical position"
           -> "POSITION"
      [] desc = "Set relative vertical position"
           -> "POSITION"
      [] desc = "Set horizontal spacing"
           -> "POSITION"
      [] desc = "Set absolute horizontal position"
           -> "POSITION"
      [] desc = "Set relative horizontal position"
           -> "POSITION"
      [] desc = "Select print color"
           -> "COLOR"
      [] desc = "Select color tables"
           -> "COLOR"
      [] desc = "Graphics dot control"
           -> "IMAGE"
      [] desc = "Select bit image mode"
           -> "IMAGE"
      [] desc = "Select single-density graphics"
           -> "IMAGE"
      [] desc = "Select double-density graphics"
           -> "IMAGE"
      [] desc = "Select high-speed double-density graphics"
           -> "IMAGE"
      [] desc = "Select quadruple-density graphics"
           -> "IMAGE"

\* the commands of the entries of parsed_data, in the order of the two loops
RECURSIVE FileCommands(_)
FileCommands(entries) ==
    IF entries = <<>> THEN <<>>
    ELSE Head(entries).parsed_commands \o FileCommands(Tail(entries))

\* the body of the loops of import_from_parser over the commands left
RECURSIVE ImportLoop(_, _, _)
ImportLoop(cmds, left, count) ==
    IF left = <<>> THEN [commands |-> cmds, count |-> count]
    ELSE LET cmd == Head(left)
         IN  IF SearchByHex(cmds, cmd.command) # {}
             THEN ImportLoop(cmds, Tail(left), count)
             ELSE ImportLoop(
                    AddCommand(cmds, CmdId(cmd.description), cmd.command,
                               cmd.description, Categorize(cmd.description),
                               <<[name        |-> "params",
                                  description |-> "Command parameters",
                                  value       |-> cmd.parameters]>>).commands,
                    Tail(left), count + 1)

\* import_from_parser(parser_file): 0 when the file cannot be read or holds
\* no 'parsed_data'
ImportFromParser(cmds, file) ==
    IF ~file.readable \/ ~file.has_parsed_data
    THEN [commands |-> cmds, count |-> 0]
    ELSE ImportLoop(cmds, FileCommands(file.parsed_data), 0)

\* the packets whose tokens the parser output files hold
ImportBuffers == {
    <<ESC, 64>>,
    <<ESC, 40, 71, 1, 0, 1>>,
    <<ESC, 64, ESC, 40, 71, 1, 0, 1>>,
    <<ESC, 40, 85, 1, 0, 5, ESC, 64>> }

\* the entry parse_file appends for a packet
EntryOf(d) ==
    [timestamp |-> "", direction |-> "",
     parsed_commands |->
        ParsePacket(d, ESCP_COMMANDS, EmptyCount, {}).parsed_commands]

\* files written by save_parsed_data for one or two packets, a JSON file
\* without 'parsed_data' and a file that cannot be read
ParserFiles ==
    {[readable |-> TRUE, has_parsed_data |-> TRUE,
      parsed_data |-> <<EntryOf(d)>>] : d \in ImportBuffers}
    \cup
    {[readable |-> TRUE, has_parsed_data |-> TRUE,
      parsed_data |-> <<EntryOf(<<ESC, 40, 71, 1, 0, 1>>), EntryOf(d)>>] :
        d \in {<<ESC, 64>>, <<ESC, 40, 85, 1, 0, 5, ESC, 64>>}}
    \cup
    {[readable |-> TRUE, has_parsed_data |-> FALSE, parsed_data |-> <<>>],
     NoFile}

\* the arguments of the calls of add_command
AddInputs == {
    [cmd_id |-> "SELECT_GRAPHICS_MODE",
     hex_sequence |-> <<"1", "B", " ", "4", "0">>,
     description |-> "Reset", category |-> "INIT"],
    [cmd_id |-> "INIT_PRINTER",
     hex_sequence |-> <<"0", "x", "1", "b", " ", "0", "x", "4", "0">>,
     description |-> "", category |-> "RESET"],
    [cmd_id |-> "SET_UNIT",
     hex_sequence |-> <<"1", "B", "2", "8", "5">>,
     description |-> "Set unit", category |-> "SETUP"] }

DictAddCommand ==
    /\ dic.n < MaxDictCalls
    /\ \E a \in AddInputs :
         LET r == AddCommand(dic.commands, a.cmd_id, a.hex_sequence,
                             a.description, a.category, <<>>)
         IN  dic' = [dic EXCEPT !.commands = r.commands, !.n = @ + 1,
                                !.called = "add_command", !.added = r.ok]
    /\ UNCHANGED drv
    /\ ParserIdle

DictImportFromParser ==
    /\ dic.n < MaxDictCalls
    /\ \E file \in ParserFiles :
         LET r == ImportFromParser(dic.commands, file)
         IN  dic' = [dic EXCEPT !.commands = r.commands, !.n = @ + 1,
                                !.called = "import_from_parser",
                                !.file = file, !.count = r.count]
    /\ UNCHANGED drv
    /\ ParserIdle

InitDict ==
    /\ table = ESCP_COMMANDS
    /\ FreshParser
    /\ th = <<>>
    /\ drv = NewDriver("USB")
    /\ dic = NewDictionary

NextDict == DictAddCommand \/ DictImportFromParser

SpecDict == InitDict /\ [][NextDict]_vars

----------------------------------------------------------------------------
(* What the claims speak of, stated on the buffer itself *)

\* the bytes of key lie in d at offset o
PrefixAt(d, o, key) ==
    o + Len(key) <= Len(d) /\ SubSeq(d, o + 1, o + Len(key)) = key

\* the little-endian value of the two bytes that follow a prefix of len
\* bytes at offset o
DeclaredN(d, o, len) == d[o + len + 1] + 256 * d[o + len + 2]

\* the parser is about to run an iteration at an ESC where the compound
\* prefix key lies, with both length bytes in the buffer
CompoundCase(key) ==
    /\ pc = "loop"
    /\ i < Len(data)
    /\ key \in CompoundKeys(table)
    /\ PrefixAt(data, i, key)
    /\ i + Len(key) + 2 <= Len(data)

\* this step appends exactly one record, for key at the cursor
EmitsOne(key) ==
    /\ Len(parsed_commands') = Len(parsed_commands) + 1
    /\ SubSeq(parsed_commands', 1, Len(parsed_commands)) = parsed_commands
    /\ parsed_commands'[Len(parsed_commands')].position = i
    /\ parsed_commands'[Len(parsed_commands')].command = Hex(key)

LastParams == parsed_commands'[Len(parsed_commands')].parameters

\* some key of the table lies in d at offset o
SomeKeyAt(d, o, t) == \E key \in Keys(t) : PrefixAt(d, o, key)

----------------------------------------------------------------------------
(* C1 *)

\* C1 as stated: a compound prefix at the cursor, followed by a length field
\* declaring N and by N payload bytes inside the buffer, yields one record
\* whose parameters are those N bytes, and moves the cursor to
\* offset + len(P) + 2 + N. (Fails for N = 0.)
C1_AsStated ==
    [][\A key \in Keys(table) :
        (CompoundCase(key) /\
         i + Len(key) + 2 + DeclaredN(data, i, Len(key)) <= Len(data))
        => LET n == DeclaredN(data, i, Len(key)) IN
           /\ EmitsOne(key)
           /\ FromHex(LastParams).bytes =
                SubSeq(data, i + Len(key) + 3, i + Len(key) + 2 + n)
           /\ i' = i + Len(key) + 2 + n]_vars

\* C1 amended: the same for N >= 1
C1_ParameterExtraction ==
    [][\A key \in Keys(table) :
        (CompoundCase(key) /\ DeclaredN(data, i, Len(key)) >= 1 /\
         i + Len(key) + 2 + DeclaredN(data, i, Len(key)) <= Len(data))
        => LET n == DeclaredN(data, i, Len(key)) IN
           /\ EmitsOne(key)
           /\ FromHex(LastParams).bytes =
                SubSeq(data, i + Len(key) + 3, i + Len(key) + 2 + n)
           /\ Len(LastParams) = 2 * n
           /\ i' = i + Len(key) + 2 + n]_vars

\* a call has returned a record at an offset > 0 that carries 256 or more
\* parameter bytes (the high length byte counts), with the cursor at the end
C1_Witness ==
    /\ pc = "returned"
    /\ i = Len(data)
    /\ \E k \in 1..Len(parsed_commands) :
        /\ parsed_commands[k].position > 0
        /\ Len(parsed_commands[k].parameters) >= 512

----------------------------------------------------------------------------
(* C2 *)

\* consecutive spans are adjacent, the first starts at 0, the last ends at
\* the cursor
Tiled ==
    /\ spans # <<>> => spans[1][1] = 0 /\ spans[Len(spans)][2] = i
    /\ spans = <<>> => i = 0
    /\ \A k \in 1..Len(spans) :
        /\ spans[k][1] < spans[k][2]
        /\ k < Len(spans) => spans[k][2] = spans[k + 1][1]

\* C2: the consumed spans tile the buffer without gap or overlap; the cursor
\* never moves past len(buffer) and equals len(buffer) when the loop exits
C2_Coverage ==
    /\ Tiled
    /\ i <= Len(data)
    /\ pc = "returned" => i = Len(data)

----------------------------------------------------------------------------
(* C3 *)

\* C3: when the declared parameter length exceeds the bytes that remain
\* after the length field, the record of the command is still emitted, with
\* empty parameters
C3_TruncationSafety ==
    [][\A key \in Keys(table) :
        (CompoundCase(key) /\
         DeclaredN(data, i, Len(key)) > Len(data) - (i + Len(key) + 2))
        => (EmitsOne(key) /\ LastParams = <<>>)]_vars

\* a call has returned a record for a compound command whose declared
\* length exceeds what remains, with payload bytes present after the field
C3_Witness ==
    /\ pc = "returned"
    /\ \E k \in 1..Len(parsed_commands) : \E key \in CompoundKeys(table) :
        LET o == parsed_commands[k].position IN
        /\ PrefixAt(data, o, key)
        /\ o + Len(key) + 2 < Len(data)
        /\ DeclaredN(data, o, Len(key)) > Len(data) - (o + Len(key) + 2)
        /\ parsed_commands[k].parameters = <<>>

----------------------------------------------------------------------------
(* C4 *)

\* C4: every record is for the longest key of the table that lies at its
\* position; and when the table holds a 2-byte key E2 and a longer key E
\* that begins with E2, the buffer E yields exactly one record, for E
C4_LongestMatch ==
    /\ \A k \in 1..Len(parsed_commands) : \A key \in Keys(table) :
        PrefixAt(data, parsed_commands[k].position, key)
        => Len(parsed_commands[k].command) >= 2 * Len(key)
    /\ pc = "returned" =>
        \A E \in Keys(table) : \A E2 \in Keys(table) :
            (Len(E2) = 2 /\ Len(E) > 2 /\ SubSeq(E, 1, 2) = E2 /\ data = E)
            => /\ Len(parsed_commands) = 1
               /\ parsed_commands[1].position = 0
               /\ parsed_commands[1].command = Hex(E)
               /\ parsed_commands[1].description = Description(table, E)

\* the call on the bytes of a 5-byte key that begins with a 2-byte key has
\* returned one record
C4_Witness ==
    /\ pc = "returned"
    /\ Len(data) = 5
    /\ data \in Keys(table)
    /\ SubSeq(data, 1, 2) \in Keys(table)
    /\ Len(parsed_commands) = 1

----------------------------------------------------------------------------
(* C5 *)

\* C5: after an unmatched ESC at offset a, a table command that starts at
\* the next ESC at offset b is emitted with position b; and the buffer
\* [ESC, 0xFF, ESC, @] gives one unknown entry and one record, at offset 2
C5_UnknownResync ==
    pc = "returned" =>
    /\ \A a \in 0..(Len(data) - 1) : \A b \in (a + 1)..(Len(data) - 1) :
        (/\ \E k \in 1..Len(spans) : spans[k][1] = a
         /\ data[a + 1] = ESC
         /\ ~SomeKeyAt(data, a, table)
         /\ \A m \in (a + 1)..(b - 1) : data[m + 1] # ESC
         /\ data[b + 1] = ESC
         /\ SomeKeyAt(data, b, table))
        => \E k \in 1..Len(parsed_commands) : parsed_commands[k].position = b
    /\ data = <<ESC, 255, ESC, 64>> =>
        /\ unknown_commands = {<<ESC, 255>>}
        /\ parsed_commands =
             << [position |-> 2, command |-> <<"1", "b", "4", "0">>,
                 description |-> "Initialize printer",
                 parameters |-> <<>>] >>

\* the call on [ESC, 0xFF, ESC, @] has returned
C5_Witness ==
    /\ pc = "returned"
    /\ data = <<ESC, 255, ESC, 64>>
    /\ Len(parsed_commands) = 1

----------------------------------------------------------------------------
(* C6 *)

\* C6: the loop runs at most len(buffer) iterations, because every
\* iteration moves the cursor forward by at least 1
C6_Termination ==
    /\ steps <= Len(data)
    /\ steps <= i
    /\ \A k \in 1..Len(spans) : spans[k][2] >= spans[k][1] + 1

\* a call that took every path has returned after len(buffer) iterations
C6_Witness ==
    /\ pc = "returned"
    /\ steps = Len(data)
    /\ Len(data) >= 3
    /\ unknown_commands # {}

----------------------------------------------------------------------------
(* C7 *)

\* C7: no exception leaves parse_packet, and no subscript data[k] is taken
\* at k >= len(buffer)
C7_NoHardFailure ==
    /\ pc # "raised"
    /\ \A k \in reads : k < Len(data)

\* a call on a compound prefix followed by exactly two bytes has returned,
\* having read the length field
C7_Witness ==
    /\ pc = "returned"
    /\ Len(data) = 5
    /\ \E key \in CompoundKeys(table) : PrefixAt(data, 0, key)
    /\ reads # {}

----------------------------------------------------------------------------
(* C8 *)

\* the data of a packet can be turned into a byte sequence
Convertible(packet) ==
    /\ packet.has_data
    /\ \/ /\ packet.type = "str"
          /\ FromHex(StripSpaces(packet.text)).error = ""
       \/ /\ packet.type = "list"
          /\ \A k \in 1..Len(packet.items) : packet.items[k] \in 0..255

\* C8: when parse_file has gone through a packet list, it has returned True,
\* no packet whose data cannot be converted was tokenized, and every packet
\* that can be converted was, also after one that cannot
C8_SkipAndContinue ==
    (pc = "file_returned" /\ packets # <<>>) =>
        /\ result = "True"
        /\ \A k \in 1..Len(packets) :
              k \in tokenized <=> Convertible(packets[k])

----------------------------------------------------------------------------
(* C9 *)

\* C9: when two interleaved calls have returned, each has returned the
\* record list it returns when run alone, and the counts and the unknown set
\* are those of running the two calls one after the other
C9_ConcurrentSafe ==
    (\A t \in Threads : th[t].pc = "returned") =>
        /\ \A t \in Threads :
              th[t].parsed_commands =
                ParsePacket(th[t].data, table, EmptyCount, {}).parsed_commands
        /\ LET seq == ParseAll(<<th[1].data, th[2].data>>, table,
                               EmptyCount, {})
           IN  /\ commands_found = seq.commands_found
               /\ unknown_commands = seq.unknown_commands

----------------------------------------------------------------------------
(* C10 *)

\* the buffers of ds in the order given by the permutation f
Reordered(ds, f) == [k \in 1..Len(ds) |-> ds[f[k]]]

Orders(n) ==
    {f \in [1..n -> 1..n] : \A a, b \in 1..n : f[a] = f[b] => a = b}

\* C10: after the calls made so far, the counts and the unknown set are
\* those of parsing the same buffers in any other order
C10_Commutative ==
    pc = "returned" =>
        \A f \in Orders(Len(calls)) :
            LET other == ParseAll(Reordered(calls, f), table, EmptyCount, {})
            IN  /\ other.commands_found = commands_found
                /\ other.unknown_commands = unknown_commands

\* two different buffers have been parsed, both with an unknown sequence
\* and with the same command
C10_Witness ==
    /\ pc = "returned"
    /\ Len(calls) = 2
    /\ calls[1] # calls[2]
    /\ Cardinality(unknown_commands) = 2
    /\ \E k \in DOMAIN commands_found : commands_found[k] = 2

----------------------------------------------------------------------------
(* C11 *)

\* where the records with the given command field stand in a sequence of
\* record lists: the pairs <<list, index>>
RecordsWith(lists, command) ==
    {q \in UNION {{<<k, j>> : j \in 1..Len(lists[k])} : k \in 1..Len(lists)} :
        lists[q[1]][q[2]].command = command}

\* C11: between calls, commands_found[p] is the number of records with
\* command p over all the lists returned so far, every key of commands_found
\* is a key of the table and no unknown sequence is one; an iteration at an
\* ESC where no table key lies puts the sequence in unknown_commands and
\* leaves commands_found as it is
C11_FrequencyAccounting ==
    /\ [](pc \in {"idle", "returned"} =>
            /\ \A p \in Keys(table) \cup DOMAIN commands_found :
                  Count(commands_found, p) =
                    Cardinality(RecordsWith(returned, Hex(p)))
            /\ \A k \in 1..Len(returned) : \A j \in 1..Len(returned[k]) :
                  \E p \in DOMAIN commands_found :
                      returned[k][j].command = Hex(p)
            /\ DOMAIN commands_found \subseteq Keys(table)
            /\ unknown_commands \cap DOMAIN commands_found = {})
    /\ [][(pc = "loop" /\ i < Len(data) /\ data[i + 1] = ESC /\
           ~SomeKeyAt(data, i, table))
          => /\ SubSeq(data, i + 1, Min(i + 2, Len(data)))
                    \in unknown_commands'
             /\ commands_found' = commands_found]_vars

\* two calls have returned lists that both hold a record of one command,
\* counted twice, and an unknown sequence was met
C11_Witness ==
    /\ pc = "returned"
    /\ Len(returned) = 2
    /\ \E p \in DOMAIN commands_found :
        /\ commands_found[p] = 2
        /\ \E j \in 1..Len(returned[1]) : returned[1][j].command = Hex(p)
        /\ \E j \in 1..Len(returned[2]) : returned[2][j].command = Hex(p)
    /\ unknown_commands # {}

----------------------------------------------------------------------------
(* C12 *)

\* this step is a call of print_statistics or of save_parsed_data
IsRead ==
    /\ Len(ops') = Len(ops) + 1
    /\ ops'[Len(ops')] \in {"print_statistics", "save_parsed_data"}

\* C12: a read leaves commands_found, unknown_commands and parsed_data
\* unchanged, and two reads with no other call between them report the same
\* total, unique and unknown counts and the same frequency table
C12_PureRead ==
    /\ [][IsRead => UNCHANGED <<commands_found, unknown_commands,
                                parsed_data>>]_vars
    /\ [](\A k \in 1..(Len(reports) - 1) :
            reports[k + 1].at = reports[k].at + 1
            => /\ reports[k + 1].total = reports[k].total
               /\ reports[k + 1].unique = reports[k].unique
               /\ reports[k + 1].unknown = reports[k].unknown
               /\ reports[k + 1].frequency = reports[k].frequency)

\* print_statistics and then save_parsed_data have reported on a parser
\* that holds counted commands and an unknown sequence
C12_Witness ==
    /\ Len(reports) = 2
    /\ reports[1].op = "print_statistics"
    /\ reports[2].op = "save_parsed_data"
    /\ reports[2].at = reports[1].at + 1
    /\ reports[2].total >= 2
    /\ reports[2].unknown >= 1

----------------------------------------------------------------------------
(* C13 *)

\* the last m bytes of d1 followed by the first bytes of d2 are the key
SplitAcross(d1, d2, key, m) ==
    /\ m <= Len(d1)
    /\ Len(key) - m <= Len(d2)
    /\ SubSeq(d1, Len(d1) - m + 1, Len(d1)) = SubSeq(key, 1, m)
    /\ SubSeq(d2, 1, Len(key) - m) = SubSeq(key, m + 1, Len(key))

\* C13: the list returned for a buffer is the one a new parser returns for
\* it, whatever was parsed before, so the same buffer always gives the same
\* list; every record is made of bytes of its own buffer, and a key split
\* across two consecutive buffers is reported by neither call
C13_Independence ==
    pc \in {"idle", "returned"} =>
    /\ \A k \in 1..Len(calls) :
          returned[k] =
            ParsePacket(calls[k], table, EmptyCount, {}).parsed_commands
    /\ \A j \in 1..Len(calls) : \A k \in 1..Len(calls) :
          calls[j] = calls[k] => returned[j] = returned[k]
    /\ \A k \in 1..Len(calls) : \A j \in 1..Len(returned[k]) :
          \E key \in Keys(table) :
              /\ returned[k][j].command = Hex(key)
              /\ PrefixAt(calls[k], returned[k][j].position, key)
    /\ \A k \in 1..(Len(calls) - 1) : \A key \in Keys(table) :
          \A m \in 1..(Len(key) - 1) :
              SplitAcross(calls[k], calls[k + 1], key, m)
              => /\ \A j \in 1..Len(returned[k]) :
                       returned[k][j].position # Len(calls[k]) - m
                 /\ \A j \in 1..Len(returned[k + 1]) :
                       returned[k + 1][j].position >= Len(key) - m

\* ESC @ was split across two calls that both returned records: the first
\* buffer ends with ESC, the second begins with @
C13_Witness ==
    /\ pc = "returned"
    /\ Len(calls) = 2
    /\ SplitAcross(calls[1], calls[2], <<ESC, 64>>, 1)
    /\ returned[1] # <<>>
    /\ returned[2] # <<>>

----------------------------------------------------------------------------
(* C14 *)

\* no byte of d is ESC
EscFree(d) == \A k \in 1..Len(d) : d[k] # ESC

\* C14: every record stands at an ESC byte of the buffer and every unknown
\* entry is the slice at an ESC byte of the buffer; an iteration at a byte
\* that is not ESC only moves the cursor by 1; a buffer without ESC gives no
\* record, no count and no unknown entry
C14_OnlyEscapes ==
    /\ [](/\ \A k \in 1..Len(parsed_commands) :
                /\ parsed_commands[k].position < Len(data)
                /\ data[parsed_commands[k].position + 1] = ESC
          /\ \A u \in unknown_commands :
                /\ u[1] = ESC
                /\ \E a \in 0..(Len(data) - 1) :
                      /\ data[a + 1] = ESC
                      /\ u = SubSeq(data, a + 1, Min(a + 2, Len(data)))
          /\ EscFree(data) =>
                /\ parsed_commands = <<>>
                /\ commands_found = EmptyCount
                /\ unknown_commands = {})
    /\ [][(pc = "loop" /\ i < Len(data) /\ data[i + 1] # ESC)
          => /\ i' = i + 1
             /\ UNCHANGED <<parsed_commands, commands_found,
                            unknown_commands>>]_vars

\* a call has returned a record and an unknown entry from a buffer whose
\* first byte is not ESC and whose record has a plain byte before it
C14_Witness ==
    /\ pc = "returned"
    /\ Len(data) >= 3
    /\ data[1] # ESC
    /\ \E k \in 1..Len(parsed_commands) :
          /\ parsed_commands[k].position > 0
          /\ data[parsed_commands[k].position] # ESC
    /\ unknown_commands # {}

----------------------------------------------------------------------------
(* C15 *)

\* C15: every key of the table is 2 to 5 bytes long, begins with ESC and
\* has one entry, and no step of parse_packet, parse_file, print_statistics
\* or save_parsed_data changes the table
C15_TableWellFormed ==
    /\ [](\A e \in table :
            /\ Len(e[1]) \in 2..5
            /\ e[1][1] = ESC
            /\ \A f \in table : f[1] = e[1] => f = e)
    /\ [](table = ESCP_COMMANDS)
    /\ [][table' = table]_vars

\* each of the four methods has been called on the parser, parse_file having
\* stored an entry, and the table is the one of the module
C15_Witness ==
    /\ {ops[k] : k \in 1..Len(ops)} =
         {"parse_packet", "parse_file", "print_statistics", "save_parsed_data"}
    /\ pc \in {"returned", "file_returned"}
    /\ parsed_data # <<>>
    /\ commands_found # EmptyCount
    /\ Keys(table) = Keys(ESCP_COMMANDS)

----------------------------------------------------------------------------
(* C16 *)

\* C16: at a compound prefix whose length field declares 0, or declares
\* N > 0 with the 2 length bytes and N bytes not all inside the buffer, the
\* record is emitted without parameters and the cursor moves by exactly the
\* prefix length
C16_FallbackAdvance ==
    [][\A key \in Keys(table) :
        (CompoundCase(key) /\
         LET n == DeclaredN(data, i, Len(key)) IN
            n = 0 \/ i + Len(key) + 2 + n > Len(data))
        => /\ EmitsOne(key)
           /\ LastParams = <<>>
           /\ i' = i + Len(key)]_vars

----------------------------------------------------------------------------
(* C17 *)

\* C17: an iteration at an ESC where no key of the table lies emits no
\* record and counts nothing, adds the 2 bytes at the cursor to
\* unknown_commands (the ESC alone when it is the last byte of the buffer)
\* and moves the cursor by exactly 1
C17_UnknownPath ==
    [][(pc = "loop" /\ i < Len(data) /\ data[i + 1] = ESC /\
        ~SomeKeyAt(data, i, table))
       => /\ parsed_commands' = parsed_commands
          /\ commands_found' = commands_found
          /\ unknown_commands' = unknown_commands \cup
                {IF i + 2 <= Len(data) THEN <<ESC, data[i + 2]>> ELSE <<ESC>>}
          /\ i' = i + 1]_vars

\* a call has returned with a 2-byte unknown entry and the 1-byte entry of
\* an ESC that ends the buffer
C17_Witness ==
    /\ pc = "returned"
    /\ Len(data) >= 3
    /\ data[Len(data)] = ESC
    /\ <<ESC>> \in unknown_commands
    /\ \E u \in unknown_commands : Len(u) = 2

----------------------------------------------------------------------------
(* C18 *)

\* the offsets of the length field and parameter bytes of a record that
\* carries parameters: [p + L, p + L + 2 + N)
ParamRegion(r) ==
    IF r.parameters = <<>> THEN {}
    ELSE LET from == r.position + Len(r.command) \div 2 IN
         from..(from + 2 + Len(r.parameters) \div 2 - 1)

\* C18: no iteration starts, so no record and no unknown entry originates,
\* at an offset inside the length field or the parameter bytes of a record
\* that carries parameters
C18_PayloadSkipped ==
    /\ \A k \in 1..Len(parsed_commands) :
          /\ (pc = "loop" /\ i < Len(data))
                => i \notin ParamRegion(parsed_commands[k])
          /\ \A j \in 1..Len(parsed_commands) :
                parsed_commands[j].position \notin
                    ParamRegion(parsed_commands[k])
          /\ \A n \in 1..Len(spans) :
                spans[n][1] \in ParamRegion(parsed_commands[k])
                => spans[n][1] = parsed_commands[k].position
                                   + Len(parsed_commands[k].command) \div 2
    /\ pc = "returned" =>
          \A u \in unknown_commands :
              \E a \in 0..(Len(data) - 1) :
                  /\ u = SubSeq(data, a + 1, Min(a + 2, Len(data)))
                  /\ \A k \in 1..Len(parsed_commands) :
                        a \notin ParamRegion(parsed_commands[k])

\* a call has returned a record whose length field begins with ESC and
\* whose parameter bytes hold ESC @, followed by a record after the block
C18_Witness ==
    /\ pc = "returned"
    /\ \E k \in 1..Len(parsed_commands) :
        LET r == parsed_commands[k] IN
        /\ r.parameters # <<>>
        /\ data[r.position + Len(r.command) \div 2 + 1] = ESC
        /\ \E a \in ParamRegion(r) : PrefixAt(data, a, <<ESC, 64>>)
        /\ k < Len(parsed_commands)
        /\ parsed_commands[k + 1].position \notin ParamRegion(r)

----------------------------------------------------------------------------
(* C19 *)

\* the match at the cursor is the 2-byte key: it lies there and no longer
\* key of the table does
SimpleCase(key) ==
    /\ pc = "loop"
    /\ i < Len(data)
    /\ Len(key) = 2
    /\ PrefixAt(data, i, key)
    /\ \A longer \in Keys(table) :
          Len(longer) > 2 => ~PrefixAt(data, i, longer)

\* C19: a 2-byte match subscripts no byte of the buffer as a length field,
\* emits its record with empty parameters and moves the cursor by exactly
\* 2, whatever bytes follow
C19_SimpleCommand ==
    [][\A key \in Keys(table) :
        SimpleCase(key)
        => /\ EmitsOne(key)
           /\ LastParams = <<>>
           /\ reads' = reads
           /\ i' = i + 2]_vars

\* the call on ESC @ followed by the bytes 01 00 has returned the one
\* record of ESC @, the two other bytes skipped one by one
C19_Witness ==
    /\ pc = "returned"
    /\ data = <<ESC, 64, 1, 0>>
    /\ Len(parsed_commands) = 1
    /\ parsed_commands[1].command = Hex(<<ESC, 64>>)
    /\ steps = 3
    /\ reads = {}

----------------------------------------------------------------------------
(* C20 *)

\* the buffer ends inside key, which begins at offset o
CutShort(d, o, key) ==
    /\ o < Len(d)
    /\ Len(key) > Len(d) - o
    /\ SubSeq(key, 1, Len(d) - o) = SubSeq(d, o + 1, Len(d))

\* C20: every record is for a key whose bytes all lie in the buffer at its
\* position, and no match consumes bytes past the end of the buffer; at an
\* ESC where a key is cut short by the end of the buffer, no record is made
\* for that key: the record is for a shorter key that lies there whole, or,
\* when there is none, the unknown path runs
C20_BoundedMatch ==
    /\ [](/\ \A k \in 1..Len(parsed_commands) : \E key \in Keys(table) :
                /\ parsed_commands[k].command = Hex(key)
                /\ PrefixAt(data, parsed_commands[k].position, key)
          /\ \A n \in 1..Len(spans) : spans[n][2] <= Len(data))
    /\ [][\A key \in Keys(table) :
            (pc = "loop" /\ CutShort(data, i, key))
            => IF SomeKeyAt(data, i, table)
               THEN \E short \in Keys(table) :
                       /\ Len(short) < Len(key)
                       /\ PrefixAt(data, i, short)
                       /\ EmitsOne(short)
               ELSE /\ parsed_commands' = parsed_commands
                    /\ commands_found' = commands_found
                    /\ Slice(data, i, i + 2) \in unknown_commands'
                    /\ i' = i + 1]_vars

\* the call on the first 4 bytes of the 5-byte key ESC ( G 01 00 has
\* returned the record of the 3-byte key ESC ( G
C20_Witness ==
    /\ pc = "returned"
    /\ <<ESC, 40, 71, 1, 0>> \in Keys(table)
    /\ data = <<ESC, 40, 71, 1>>
    /\ Len(parsed_commands) = 1
    /\ parsed_commands[1].command = Hex(<<ESC, 40, 71>>)

----------------------------------------------------------------------------
(* C21 *)

\* the record r speaks of the L bytes of d at its position: they are a key
\* of the table, the command field is their hex text, the description is the
\* table's for them, and the parameters are empty or the hex text of the N
\* bytes after the length field, N the little-endian value of that field
RecordOf(r, d, t, L) ==
    LET p == r.position IN
    /\ p + L <= Len(d)
    /\ SubSeq(d, p + 1, p + L) \in Keys(t)
    /\ FromHex(r.command).error = ""
    /\ FromHex(r.command).bytes = SubSeq(d, p + 1, p + L)
    /\ <<SubSeq(d, p + 1, p + L), r.description>> \in t
    /\ \/ r.parameters = <<>>
       \/ /\ p + L + 2 <= Len(d)
          /\ LET n == DeclaredN(d, p, L) IN
             /\ n >= 1
             /\ p + L + 2 + n <= Len(d)
             /\ FromHex(r.parameters).error = ""
             /\ FromHex(r.parameters).bytes =
                    SubSeq(d, p + L + 3, p + L + 2 + n)

\* C21: every record emitted for the buffer has the command, description
\* and parameters of a table key of 2 to 5 bytes that lies at its position
C21_RecordContents ==
    \A k \in 1..Len(parsed_commands) :
        \E L \in 2..5 : RecordOf(parsed_commands[k], data, table, L)

\* a call has returned a record that carries the 2 or 3 bytes its length
\* field declares and, after it, a record without parameters
C21_Witness ==
    /\ pc = "returned"
    /\ Len(parsed_commands) = 2
    /\ parsed_commands[1].position >= 1
    /\ Len(parsed_commands[1].parameters) \in {4, 6}
    /\ parsed_commands[2].parameters = <<>>

----------------------------------------------------------------------------
(* C22 *)

\* the bytes a record covers: its prefix and, when it carries parameters,
\* the 2 length bytes and the parameter bytes
Extent(r) ==
    Len(r.command) \div 2 +
    (IF r.parameters # <<>> THEN 2 + Len(r.parameters) \div 2 ELSE 0)

\* C22: the record positions are strictly increasing, and each record
\* starts at or after the end of the record before it
C22_OutputOrder ==
    \A k \in 1..(Len(parsed_commands) - 1) :
        /\ parsed_commands[k].position < parsed_commands[k + 1].position
        /\ parsed_commands[k + 1].position >=
              parsed_commands[k].position + Extent(parsed_commands[k])

\* a call has returned two records, the second starting right where the
\* parameter bytes of the first end
C22_Witness ==
    /\ pc = "returned"
    /\ Len(parsed_commands) = 2
    /\ parsed_commands[1].position = 2
    /\ parsed_commands[1].parameters # <<>>
    /\ parsed_commands[2].position =
          parsed_commands[1].position + Extent(parsed_commands[1])

----------------------------------------------------------------------------
(* C23 *)

\* only parse_file and the reads have been called so far
OnlyFiles == \A k \in 1..Len(ops) : ops[k] # "parse_packet"

\* the number of parsed_commands entries over all elements of parsed_data
RECURSIVE StoredRecords(_)
StoredRecords(pd) ==
    IF pd = <<>> THEN 0
    ELSE Len(Head(pd).parsed_commands) + StoredRecords(Tail(pd))

\* C23: between calls, when only parse_file has parsed, the sum of the
\* commands_found values is the number of records stored in parsed_data,
\* whatever the calls returned, and every commands_found value is >= 1
C23_TotalsAgree ==
    (OnlyFiles /\ pc \in {"idle", "file_returned"}) =>
        /\ TotalCommands(commands_found) = StoredRecords(parsed_data)
        /\ \A p \in DOMAIN commands_found : commands_found[p] >= 1

\* parse_file has been called several times and returned False the last
\* time, after it had stored an entry; parsed_data holds several entries
C23_Witness ==
    /\ OnlyFiles
    /\ Len(ops) >= 3
    /\ pc = "file_returned"
    /\ result = "False"
    /\ Len(parsed_data) >= 3
    /\ parsed_data[Len(parsed_data)].timestamp = "t1"
    /\ StoredRecords(parsed_data) > Len(parsed_data)

----------------------------------------------------------------------------
(* C24 *)

\* parse_packet is about to return to the packet loop of parse_file
BackToFile == pc = "loop" /\ i >= Len(data) /\ pk > 0

\* C24: every element of parsed_data holds at least one record; when
\* parse_packet returns to parse_file, an entry with the returned list is
\* appended if the list is not empty and parsed_data is left as it is
\* otherwise, the unknown sequences of the omitted packet staying in
\* unknown_commands
C24_NoEmptyEntry ==
    /\ [](\A k \in 1..Len(parsed_data) :
            parsed_data[k].parsed_commands # <<>>)
    /\ [][BackToFile =>
            IF parsed_commands = <<>>
            THEN /\ parsed_data' = parsed_data
                 /\ unknown_commands' = unknown_commands
                 /\ \A a \in 0..(Len(data) - 1) :
                       data[a + 1] = ESC =>
                         SubSeq(data, a + 1, Min(a + 2, Len(data)))
                             \in unknown_commands'
            ELSE /\ Len(parsed_data') = Len(parsed_data) + 1
                 /\ SubSeq(parsed_data', 1, Len(parsed_data)) = parsed_data
                 /\ parsed_data'[Len(parsed_data')].parsed_commands =
                       parsed_commands]_vars

\* parse_file has returned True after a packet with records and a packet
\* with an unknown sequence only: one entry, and the sequence is recorded
C24_Witness ==
    /\ pc = "file_returned"
    /\ result = "True"
    /\ Cardinality(tokenized) = 2
    /\ Len(parsed_data) = 1
    /\ <<ESC, 255>> \in unknown_commands

----------------------------------------------------------------------------
(* C25 *)

\* the index of the first packet of ps whose conversion raises, or 0
FirstRaising(ps) ==
    IF \E k \in 1..Len(ps) : PacketBytes(ps[k]).do = "raise"
    THEN CHOOSE k \in 1..Len(ps) :
            /\ PacketBytes(ps[k]).do = "raise"
            /\ \A j \in 1..(k - 1) : PacketBytes(ps[j]).do # "raise"
    ELSE 0

\* the buffers of the packets of ps that are handed to parse_packet
RECURSIVE BuffersOf(_)
BuffersOf(ps) ==
    IF ps = <<>> THEN <<>>
    ELSE (IF PacketBytes(Head(ps)).do = "parse"
          THEN <<PacketBytes(Head(ps)).bytes>> ELSE <<>>)
         \o BuffersOf(Tail(ps))

\* the entries the packets of ps contribute to parsed_data
RECURSIVE EntriesOf(_, _)
EntriesOf(ps, t) ==
    IF ps = <<>> THEN <<>>
    ELSE LET b == PacketBytes(Head(ps))
             recs == IF b.do = "parse"
                     THEN ParsePacket(b.bytes, t, EmptyCount, {}).parsed_commands
                     ELSE <<>>
         IN  (IF recs # <<>>
              THEN <<[timestamp |-> Head(ps).timestamp,
                      direction |-> Head(ps).direction,
                      parsed_commands |-> recs]>>
              ELSE <<>>)
             \o EntriesOf(Tail(ps), t)

\* C25: when parse_file on a new parser has returned False because the
\* conversion of packet k raised, the parser holds exactly what the packets
\* before k contributed (entries, counts, unknown sequences) and no packet
\* from k on was handed to parse_packet; the failing step itself changes
\* none of the three
C25_NoRollback ==
    /\ [](LET k == FirstRaising(packets) IN
          (pc = "file_returned" /\ result = "False" /\ k > 0) =>
            LET before == SubSeq(packets, 1, k - 1)
                sofar == ParseAll(BuffersOf(before), table, EmptyCount, {})
            IN  /\ parsed_data = EntriesOf(before, table)
                /\ commands_found = sofar.commands_found
                /\ unknown_commands = sofar.unknown_commands
                /\ \A j \in tokenized : j < k)
    /\ [][(pc = "file" /\ pc' = "file_returned" /\ result' = "False")
          => UNCHANGED <<parsed_data, commands_found, unknown_commands>>]_vars

\* parse_file has returned False at its third packet, after two packets
\* that left an entry, counts and an unknown sequence
C25_Witness ==
    /\ pc = "file_returned"
    /\ result = "False"
    /\ FirstRaising(packets) = 3
    /\ tokenized = {1, 2}
    /\ parsed_data # <<>>
    /\ commands_found # EmptyCount
    /\ unknown_commands # {}

----------------------------------------------------------------------------
(* C26 *)

\* C26: in every step of any sequence of parse_packet, parse_file,
\* print_statistics and save_parsed_data calls, every commands_found count
\* stays or grows, unknown_commands keeps its elements, and parsed_data
\* keeps its entries in place, new ones coming at the end
C26_Monotonic ==
    [][/\ \A p \in DOMAIN commands_found :
            /\ p \in DOMAIN commands_found'
            /\ commands_found'[p] >= commands_found[p]
       /\ unknown_commands \subseteq unknown_commands'
       /\ Len(parsed_data') >= Len(parsed_data)
       /\ SubSeq(parsed_data', 1, Len(parsed_data)) = parsed_data]_vars

\* after calls of parse_file, parse_packet and a read, one command has been
\* counted 3 times, parsed_data holds two entries and an unknown sequence
\* is recorded
C26_Witness ==
    /\ pc = "file_returned"
    /\ \E k \in 1..Len(ops) : ops[k] = "parse_packet"
    /\ Len(reports) >= 1
    /\ Len(parsed_data) >= 2
    /\ \E p \in DOMAIN commands_found : commands_found[p] >= 3
    /\ unknown_commands # {}

----------------------------------------------------------------------------
(* C29 *)

\* the path of one iteration of the loop with the second 2-byte attempt
\* taken out
PathWithoutSecond(d, c, t) ==
    IF d[c + 1] # ESC THEN "skip"
    ELSE IF MatchLen(d, c, t) > 0 THEN "match"
    ELSE "unknown"

\* C29: whenever the length loop has left matched false at an ESC with 2
\* bytes available, the 2-byte slice at the cursor is not a key of the
\* table, so the second attempt emits nothing, and every iteration takes
\* the path it takes without that block
C29_SecondAttemptDead ==
    (pc = "loop" /\ i < Len(data)) =>
        /\ (data[i + 1] = ESC /\ MatchLen(data, i, table) = 0 /\
            i + 2 <= Len(data))
           => /\ SubSeq(data, i + 1, i + 2) \notin Keys(table)
              /\ SecondTry(data, i, table) = 0
        /\ Path(data, i, table) = PathWithoutSecond(data, i, table)

\* a call has returned after the second attempt was reached twice with 2
\* bytes available: two 2-byte unknown entries and no record
C29_Witness ==
    /\ pc = "returned"
    /\ Len(data) = 4
    /\ parsed_commands = <<>>
    /\ Cardinality(unknown_commands) = 2
    /\ \A u \in unknown_commands : Len(u) = 2

----------------------------------------------------------------------------
(* C27 *)

\* C27: between calls is_initialized holds only if is_connected does; a
\* call of initialize on a disconnected driver leaves is_initialized False,
\* and a disconnect that returns True leaves both flags False
C27_DriverFlags ==
    /\ [](drv.is_initialized => drv.is_connected)
    /\ [][/\ (drv'.called = "initialize" /\ ~drv.is_connected)
               => ~drv'.is_initialized
          /\ (drv'.called = "disconnect" /\ drv'.value = "True")
               => (~drv'.is_connected /\ ~drv'.is_initialized)]_vars

\* a disconnect has failed on a connected and initialized driver whose
\* print head had been moved: both flags are still True
C27_Witness ==
    /\ drv.called = "disconnect"
    /\ drv.value = "False"
    /\ drv.is_connected
    /\ drv.is_initialized
    /\ drv.current_position = <<1, 1>>

----------------------------------------------------------------------------
(* C28 *)

\* C28: an import_from_parser of the file of the import just before it, with
\* no other call on the dictionary in between, returns 0 and leaves the
\* entries of the dictionary as they are
C28_ImportIdempotent ==
    [][(/\ dic.called = "import_from_parser"
        /\ dic'.called = "import_from_parser"
        /\ dic'.n = dic.n + 1
        /\ dic'.file = dic.file)
       => (dic'.count = 0 /\ dic'.commands = dic.commands)]_vars

====
